---- MODULE Spec2Model ----
(***************************************************************************)
(* State-machine model of src/frontend/script.js: the DOMContentLoaded     *)
(* callback that wires the log event channel, the status probe and the     *)
(* four form submit handlers of the bot control page.                      *)
(*                                                                         *)
(* Text is modelled as a sequence of tokens.  A token is either a piece of *)
(* plain text or one of the markup tags of Tags; Str concatenates the      *)
(* tokens into the string the script handles.  Substring tests             *)
(* (String.includes) and the HTML parser (innerHTML) work at token         *)
(* granularity.                                                            *)
(***************************************************************************)
EXTENDS Integers, Sequences, FiniteSets, TLC

VARIABLES
    loginFormHidden,        \* loginForm.classList contains 'hidden'
    twoFaSectionHidden,     \* twoFaSection.classList contains 'hidden'
    botActionsHidden,       \* botActionsSection.classList contains 'hidden'
    statusMessage,          \* [textContent, isError] of #status-message
    logOutput,              \* children of #log-output: Seq of [className, textContent]
    userListOutput,         \* children of #user-list-output, as the HTML parser builds them
    recipientPks,           \* value of the #recipient-pks textarea
    eventSource,            \* readyState of the EventSource: "open" | "closed"
    statusProbe,            \* the fetch('/status') promise chain: "pending" | "done" | "failed"
    inflight,               \* per endpoint, the number of requests sent and not yet answered
    received,               \* history: payloads delivered to onmessage, in arrival order
    esOpened,               \* history: number of EventSource('/logs') constructed
    esErrors,               \* history: number of error events delivered to onerror
    attested,               \* history: a response attested an authenticated session
    fetchedPks,             \* history: value the last populating fetch wrote to the recipient field
    lastEvent               \* history: the handler step taken last, its input and how it ended

vars == <<loginFormHidden, twoFaSectionHidden, botActionsHidden, statusMessage,
          logOutput, userListOutput, recipientPks, eventSource, statusProbe,
          inflight, received, esOpened, esErrors, attested, fetchedPks, lastEvent>>

authVars == <<loginFormHidden, twoFaSectionHidden, botActionsHidden, attested>>

(***************************************************************************)
(* Bounds of the model.                                                    *)
(***************************************************************************)
MaxLog == 3         \* log messages delivered on the channel
MaxInFlight == 2    \* unanswered requests, over all endpoints
MaxUsers == 3       \* users in one contact-fetch response

(***************************************************************************)
(* Text helpers.                                                           *)
(***************************************************************************)
RECURSIVE Str(_)
Str(toks) == IF toks = <<>> THEN "" ELSE Head(toks) \o Str(Tail(toks))

\* String.prototype.includes, at token granularity
Includes(toks, marker) == \E i \in 1..Len(toks) : toks[i] = marker

\* JavaScript truthiness of a string value
Truthy(toks) == Str(toks) # ""

(***************************************************************************)
(* updateStatus(message, isError)                                          *)
(***************************************************************************)
updateStatus(message, isError) ==
    [textContent |-> message, isError |-> isError]

(***************************************************************************)
(* appendLog(logEntry): the paragraph appended to #log-output.             *)
(***************************************************************************)
LogClass(logEntry) ==
    IF Includes(logEntry, "ERROR") \/ Includes(logEntry, "Failed") THEN "log-error"
    ELSE IF Includes(logEntry, "WARNING") \/ Includes(logEntry, "Rate limit") THEN "log-warning"
    ELSE IF Includes(logEntry, "INFO") \/ Includes(logEntry, "Successfully") THEN "log-info"
    ELSE ""

appendLog(log, logEntry) ==
    Append(log, [className |-> LogClass(logEntry), textContent |-> Str(logEntry)])

StreamFailedLine ==
    <<"ERROR", ": Log streaming failed. Refresh the page or check server logs.">>

(***************************************************************************)
(* Inputs: payloads of the log channel.  A payload is the parsed           *)
(* event.data: an object with or without a log field.                      *)
(***************************************************************************)
LogTexts == { <<"INFO", ": started">>, <<"Failed", " to send">>, <<"plain">>, <<>> }

Payloads == { [log |-> t] : t \in LogTexts } \cup { [other |-> <<"x">>] }

HasLog(data) == "log" \in DOMAIN data

(***************************************************************************)
(* State after the DOMContentLoaded callback ran: the channel is open, the *)
(* status probe is in flight, nothing has been rendered.  The markup is    *)
(* not part of the source: the 2FA section and the action surface start    *)
(* hidden, the login form may start hidden or shown.                       *)
(***************************************************************************)
Urls == {"/login", "/complete-2fa", "/get-list", "/send-dm"}

Init ==
    /\ loginFormHidden \in BOOLEAN
    /\ twoFaSectionHidden = TRUE
    /\ botActionsHidden = TRUE
    /\ statusMessage = [textContent |-> "", isError |-> FALSE]
    /\ logOutput = <<>>
    /\ userListOutput = <<>>
    /\ recipientPks = ""
    /\ eventSource = "open"
    /\ statusProbe = "pending"
    /\ inflight = [u \in Urls |-> 0]
    /\ received = <<>>
    /\ esErrors = 0
    /\ esOpened = 1
    /\ attested = FALSE
    /\ fetchedPks = ""
    /\ lastEvent = [op |-> "load"]

(***************************************************************************)
(* eventSource.onmessage                                                   *)
(***************************************************************************)
OnMessage(data) ==
    /\ eventSource = "open"
    /\ Len(received) < MaxLog
    /\ received' = Append(received, data)
    /\ logOutput' = IF HasLog(data) /\ Truthy(data.log)
                    THEN appendLog(logOutput, data.log)
                    ELSE logOutput
    /\ lastEvent' = [op |-> "onmessage", data |-> data]
    /\ UNCHANGED <<authVars, statusMessage, userListOutput, recipientPks, fetchedPks,
                   eventSource, esOpened, esErrors, statusProbe, inflight>>

(***************************************************************************)
(* eventSource.onerror                                                     *)
(***************************************************************************)
\* mutant of OnError: the channel is left open
OnErrorKeepsOpen ==
    /\ eventSource = "open"
    /\ logOutput' = appendLog(logOutput, StreamFailedLine)
    /\ esErrors' = esErrors + 1
    /\ lastEvent' = [op |-> "onerror"]
    /\ UNCHANGED <<authVars, statusMessage, userListOutput, recipientPks,
                   statusProbe, inflight, received, fetchedPks, eventSource, esOpened>>

OnError ==
    /\ eventSource = "open"
    /\ logOutput' = appendLog(logOutput, StreamFailedLine)
    /\ eventSource' = "closed"
    /\ esErrors' = esErrors + 1
    /\ lastEvent' = [op |-> "onerror"]
    /\ UNCHANGED <<authVars, statusMessage, userListOutput, recipientPks,
                   statusProbe, inflight, received, fetchedPks, esOpened>>

(***************************************************************************)
(* Inputs: responses of the backend.  A response is a transport failure    *)
(* (fetch rejects), a body that is not JSON (response.json() rejects), or  *)
(* a transport status (ok) with a parsed body.  A field the body lacks is  *)
(* undefined in the script.                                                *)
(***************************************************************************)
Messages == { <<"Done.">>, <<"Check your input.">> }

Rejections == { [kind |-> "reject"], [kind |-> "nonjson"] }

Json(ok, body) == [kind |-> "json", ok |-> ok, body |-> body]

ProbeResponses ==
    Rejections \cup { Json(TRUE, [logged_in |-> b]) : b \in BOOLEAN }

LoginResponses ==
    Rejections \cup
    { Json(TRUE, [status |-> s, message |-> m]) :
        s \in {"success", "2fa_required", "error"}, m \in Messages }

TwoFaResponses ==
    Rejections \cup
    { Json(TRUE, [status |-> s, message |-> m]) : s \in {"success", "error"}, m \in Messages }

\* how a handler step ended: "returned", "caught" (its own catch ran) or
\* "unhandled rejection" (the async handler's promise rejected with no catch)
Handled(op, resp, ended) == [op |-> op, resp |-> resp, ended |-> ended]

RECURSIVE Sum(_, _)
Sum(f, S) == IF S = {} THEN 0 ELSE LET u == CHOOSE x \in S : TRUE IN f[u] + Sum(f, S \ {u})

\* the bound on the requests awaiting a response
CanSend == Sum(inflight, Urls) < MaxInFlight

\* fetch(url, ...): one more request of url awaits its response
Send(url) == [inflight EXCEPT ![url] = @ + 1]

\* the await of one request of url resumes
Answered(url) == [inflight EXCEPT ![url] = @ - 1]

logVars == <<logOutput, eventSource, received, esOpened, esErrors>>

actionVars == <<userListOutput, recipientPks, fetchedPks>>

(***************************************************************************)
(* fetch('/status') .then .then .catch                                     *)
(***************************************************************************)
\* mutant of StatusResponse: a failed probe is issued again
StatusResponseRetries(resp) ==
    /\ statusProbe = "pending"
    /\ IF resp.kind = "json"
       THEN /\ statusProbe' = "done"
            /\ lastEvent' = Handled("statusResponse", resp, "returned")
            /\ IF resp.body.logged_in
               THEN /\ loginFormHidden' = TRUE
                    /\ botActionsHidden' = FALSE
                    /\ statusMessage' = updateStatus("Logged in.", FALSE)
                    /\ attested' = TRUE
               ELSE /\ loginFormHidden' = FALSE
                    /\ botActionsHidden' = TRUE
                    /\ statusMessage' = updateStatus("Please log in to Instagram.", FALSE)
                    /\ UNCHANGED attested
            /\ UNCHANGED twoFaSectionHidden
       ELSE /\ statusProbe' = "pending"
            /\ lastEvent' = Handled("statusResponse", resp, "caught")
            /\ statusMessage' =
                 updateStatus("Could not connect to backend. Ensure the server is running.", TRUE)
            /\ UNCHANGED authVars
    /\ UNCHANGED <<logVars, actionVars, inflight>>

StatusResponse(resp) ==
    /\ statusProbe = "pending"
    /\ IF resp.kind = "json"
       THEN /\ statusProbe' = "done"
            /\ lastEvent' = Handled("statusResponse", resp, "returned")
            /\ IF resp.body.logged_in
               THEN /\ loginFormHidden' = TRUE
                    /\ botActionsHidden' = FALSE
                    /\ statusMessage' = updateStatus("Logged in.", FALSE)
                    /\ attested' = TRUE
               ELSE /\ loginFormHidden' = FALSE
                    /\ botActionsHidden' = TRUE
                    /\ statusMessage' = updateStatus("Please log in to Instagram.", FALSE)
                    /\ UNCHANGED attested
            /\ UNCHANGED twoFaSectionHidden
       ELSE /\ statusProbe' = "failed"
            /\ lastEvent' = Handled("statusResponse", resp, "caught")
            /\ statusMessage' =
                 updateStatus("Could not connect to backend. Ensure the server is running.", TRUE)
            /\ UNCHANGED authVars
    /\ UNCHANGED <<logVars, actionVars, inflight>>

(***************************************************************************)
(* loginForm submit handler, up to the await of fetch('/login').  A form   *)
(* fires submit only while it is shown: the login form itself, the 2FA     *)
(* form inside the 2FA section, the two action forms and the recipient     *)
(* field inside the action surface.                                        *)
(***************************************************************************)
LoginSubmit ==
    /\ ~loginFormHidden
    /\ CanSend
    /\ statusMessage' = updateStatus("Logging in...", FALSE)
    /\ inflight' = Send("/login")
    /\ lastEvent' = [op |-> "loginSubmit", defaultPrevented |-> TRUE]
    /\ UNCHANGED <<authVars, logVars, actionVars, statusProbe>>

(***************************************************************************)
(* loginForm submit handler: the three branches on result.status           *)
(***************************************************************************)
\* mutant of LoginSuccess: the 2FA section is left as it was
LoginSuccessKeepsTwoFa(result) ==
    /\ statusMessage' = updateStatus(Str(result.message), FALSE)
    /\ loginFormHidden' = TRUE
    /\ botActionsHidden' = FALSE
    /\ attested' = TRUE
    /\ UNCHANGED twoFaSectionHidden

LoginSuccess(result) ==
    /\ statusMessage' = updateStatus(Str(result.message), FALSE)
    /\ loginFormHidden' = TRUE
    /\ twoFaSectionHidden' = TRUE
    /\ botActionsHidden' = FALSE
    /\ attested' = TRUE

\* mutant of LoginTwoFaRequired: the login form is left as it was
LoginTwoFaRequiredKeepsForm(result) ==
    /\ statusMessage' = updateStatus(Str(result.message), TRUE)
    /\ twoFaSectionHidden' = FALSE
    /\ UNCHANGED <<loginFormHidden, botActionsHidden, attested>>

LoginTwoFaRequired(result) ==
    /\ statusMessage' = updateStatus(Str(result.message), TRUE)
    /\ loginFormHidden' = TRUE
    /\ twoFaSectionHidden' = FALSE
    /\ UNCHANGED <<botActionsHidden, attested>>

\* mutant of LoginFailed: a failed login shows the action surface
LoginFailedShowsActions(result) ==
    /\ statusMessage' = updateStatus(Str(result.message), TRUE)
    /\ loginFormHidden' = FALSE
    /\ twoFaSectionHidden' = TRUE
    /\ botActionsHidden' = FALSE
    /\ UNCHANGED attested

LoginFailed(result) ==
    /\ statusMessage' = updateStatus(Str(result.message), TRUE)
    /\ loginFormHidden' = FALSE
    /\ twoFaSectionHidden' = TRUE
    /\ UNCHANGED <<botActionsHidden, attested>>

(***************************************************************************)
(* loginForm submit handler, from the await of fetch('/login') on          *)
(***************************************************************************)
LoginResponse(resp) ==
    /\ inflight["/login"] > 0
    /\ inflight' = Answered("/login")
    /\ IF resp.kind # "json"
       THEN /\ lastEvent' = Handled("loginResponse", resp, "unhandled rejection")
            /\ UNCHANGED <<authVars, statusMessage>>
       ELSE /\ lastEvent' = Handled("loginResponse", resp, "returned")
            /\ LET result == resp.body IN
               IF result.status = "success" THEN LoginSuccess(result)
               ELSE IF result.status = "2fa_required" THEN LoginTwoFaRequired(result)
               ELSE LoginFailed(result)
    /\ UNCHANGED <<logVars, actionVars, statusProbe>>

(***************************************************************************)
(* twoFaForm submit handler, up to the await of fetch('/complete-2fa')     *)
(***************************************************************************)
\* mutant of TwoFaSubmit: submitting the code hides the 2FA section
TwoFaSubmitHidesForm ==
    /\ ~twoFaSectionHidden
    /\ CanSend
    /\ statusMessage' = updateStatus("Submitting 2FA code...", FALSE)
    /\ inflight' = Send("/complete-2fa")
    /\ lastEvent' = [op |-> "twoFaSubmit", defaultPrevented |-> TRUE]
    /\ twoFaSectionHidden' = TRUE
    /\ UNCHANGED <<loginFormHidden, botActionsHidden, attested, logVars, actionVars, statusProbe>>

TwoFaSubmit ==
    /\ ~twoFaSectionHidden
    /\ CanSend
    /\ statusMessage' = updateStatus("Submitting 2FA code...", FALSE)
    /\ inflight' = Send("/complete-2fa")
    /\ lastEvent' = [op |-> "twoFaSubmit", defaultPrevented |-> TRUE]
    /\ UNCHANGED <<authVars, logVars, actionVars, statusProbe>>

(***************************************************************************)
(* twoFaForm submit handler: the two branches on result.status             *)
(***************************************************************************)
TwoFaSuccess(result) ==
    /\ statusMessage' = updateStatus(Str(result.message), FALSE)
    /\ twoFaSectionHidden' = TRUE
    /\ botActionsHidden' = FALSE
    /\ attested' = TRUE
    /\ UNCHANGED loginFormHidden

\* mutant of TwoFaFailed: a failed code sends the operator back to the login form
TwoFaFailedBackToLogin(result) ==
    /\ statusMessage' = updateStatus(Str(result.message), TRUE)
    /\ twoFaSectionHidden' = TRUE
    /\ loginFormHidden' = FALSE
    /\ UNCHANGED <<botActionsHidden, attested>>

TwoFaFailed(result) ==
    /\ statusMessage' = updateStatus(Str(result.message), TRUE)
    /\ twoFaSectionHidden' = FALSE
    /\ UNCHANGED <<loginFormHidden, botActionsHidden, attested>>

(***************************************************************************)
(* twoFaForm submit handler, from the await of fetch('/complete-2fa') on   *)
(***************************************************************************)
TwoFaResponse(resp) ==
    /\ inflight["/complete-2fa"] > 0
    /\ inflight' = Answered("/complete-2fa")
    /\ IF resp.kind # "json"
       THEN /\ lastEvent' = Handled("twoFaResponse", resp, "unhandled rejection")
            /\ UNCHANGED <<authVars, statusMessage>>
       ELSE /\ lastEvent' = Handled("twoFaResponse", resp, "returned")
            /\ LET result == resp.body IN
               IF result.status = "success" THEN TwoFaSuccess(result)
               ELSE TwoFaFailed(result)
    /\ UNCHANGED <<logVars, actionVars, statusProbe>>

(***************************************************************************)
(* Element.innerHTML = html: the children the HTML parser builds from a    *)
(* token sequence.  A <p> start tag closes an open paragraph and opens a   *)
(* new one; </p> closes the open paragraph, and with none open inserts an  *)
(* empty one; text goes into the open paragraph, or becomes a text node.   *)
(***************************************************************************)
StartTags == { "<p>", "<p class=\"text-orange-600\">", "<p class=\"text-red-600\">" }

ClassOf(tag) ==
    IF tag = "<p class=\"text-orange-600\">" THEN "text-orange-600"
    ELSE IF tag = "<p class=\"text-red-600\">" THEN "text-red-600"
    ELSE ""

Paragraph(className, text) == [tag |-> "p", className |-> className, textContent |-> text]

TextNode(text) == [tag |-> "#text", className |-> "", textContent |-> text]

AddText(children, t) ==
    IF children # <<>> /\ children[Len(children)].tag = "#text"
    THEN [children EXCEPT ![Len(children)].textContent = @ \o t]
    ELSE Append(children, TextNode(t))

RECURSIVE ParseInto(_, _, _)
ParseInto(toks, children, open) ==
    IF toks = <<>> THEN children \o open
    ELSE LET t == Head(toks)
             rest == Tail(toks)
         IN  IF t \in StartTags
             THEN ParseInto(rest, children \o open, <<Paragraph(ClassOf(t), "")>>)
             ELSE IF t = "</p>"
             THEN IF open = <<>>
                  THEN ParseInto(rest, Append(children, Paragraph("", "")), <<>>)
                  ELSE ParseInto(rest, children \o open, <<>>)
             ELSE IF t = ""
             THEN ParseInto(rest, children, open)
             ELSE IF open = <<>>
             THEN ParseInto(rest, AddText(children, t), <<>>)
             ELSE ParseInto(rest, children,
                            <<[open[1] EXCEPT !.textContent = @ \o t]>>)

innerHTML(toks) == ParseInto(toks, <<>>, <<>>)

(***************************************************************************)
(* Inputs: contact-fetch and bulk-send responses.                          *)
(***************************************************************************)
\* the contacts the backend knows: pk 1..MaxUsers; the full name of contact 2
\* holds markup
User(pk) ==
    [pk |-> pk,
     username |-> <<"user", ToString(pk)>>,
     full_name |-> IF pk = 2 THEN <<"B ", "</p>", "<p>", "B">> ELSE <<"Name ", ToString(pk)>>]

\* a response lists the contacts lo..hi, in ascending or in descending order
\* of pk, or none
UserSeqs ==
    { <<>> }
    \cup { [i \in 1..(hi - lo + 1) |-> User(lo + i - 1)] :
             lo \in 1..MaxUsers, hi \in 1..MaxUsers }
    \cup { [i \in 1..(hi - lo + 1) |-> User(hi - i + 1)] :
             lo \in 1..MaxUsers, hi \in 1..MaxUsers }

Details == { <<"Not logged in">>, <<>> }

GetListBodies ==
    { [status |-> "success", users |-> us] : us \in UserSeqs }
    \cup { [status |-> "success"] }
    \cup { [status |-> "warning", message |-> m] : m \in Messages }
    \cup { [detail |-> d] : d \in Details }
    \cup { [status |-> "error"] }

GetListResponses ==
    Rejections \cup { Json(ok, b) : ok \in BOOLEAN, b \in GetListBodies }

SendDmBodies ==
    { [status |-> "processing", message |-> m] : m \in Messages }
    \cup { [detail |-> d] : d \in Details }
    \cup { [status |-> "error"] }

SendDmResponses ==
    Rejections \cup { Json(ok, b) : ok \in BOOLEAN, b \in SendDmBodies }

\* values the operator types into the recipient field
EditValues == { "7, 8" }

\* result.detail || 'Unknown error'
ErrorDetail(result) ==
    IF "detail" \in DOMAIN result /\ Truthy(result.detail)
    THEN result.detail
    ELSE <<"Unknown error">>

\* `<p>PK: ${user.pk}, Username: ${user.username}, Full Name: ${user.full_name}</p>`
UserHtml(user) ==
    <<"<p>", "PK: ", ToString(user.pk), ", Username: ">> \o user.username
        \o <<", Full Name: ">> \o user.full_name \o <<"</p>">>

\* result.users.map(user => ...).join('')
RECURSIVE ListHtml(_)
ListHtml(users) ==
    IF users = <<>> THEN <<>> ELSE UserHtml(Head(users)) \o ListHtml(Tail(users))

\* result.users.map(user => user.pk).join(', ')
RECURSIVE JoinPks(_)
JoinPks(users) ==
    IF users = <<>> THEN ""
    ELSE IF Len(users) = 1 THEN ToString(users[1].pk)
    ELSE ToString(users[1].pk) \o ", " \o JoinPks(Tail(users))

(***************************************************************************)
(* getListForm submit handler, up to the await of fetch('/get-list')       *)
(***************************************************************************)
GetListSubmit ==
    /\ ~botActionsHidden
    /\ CanSend
    /\ userListOutput' = innerHTML(<<"<p>", "Fetching list...", "</p>">>)
    /\ statusMessage' = updateStatus("Fetching user list...", FALSE)
    /\ inflight' = Send("/get-list")
    /\ lastEvent' = [op |-> "getListSubmit", defaultPrevented |-> TRUE]
    /\ UNCHANGED <<authVars, logVars, recipientPks, fetchedPks, statusProbe>>

(***************************************************************************)
(* getListForm submit handler: the branches after the list was cleared     *)
(***************************************************************************)
GetListPopulated(result) ==
    /\ statusMessage' =
         updateStatus("Successfully fetched " \o ToString(Len(result.users)) \o " users.", FALSE)
    /\ userListOutput' = innerHTML(ListHtml(result.users))
    /\ recipientPks' = JoinPks(result.users)
    /\ fetchedPks' = JoinPks(result.users)

\* mutant of GetListEmpty: the empty list is presented the way an error is
GetListEmptyAsError(result) ==
    /\ statusMessage' = updateStatus("Failed to fetch list: Unknown error", TRUE)
    /\ userListOutput' =
         innerHTML(<<"<p class=\"text-red-600\">", "Error: ", "Unknown error", "</p>">>)
    /\ UNCHANGED <<recipientPks, fetchedPks>>

GetListEmpty(result) ==
    /\ statusMessage' =
         updateStatus("Successfully fetched " \o ToString(Len(result.users)) \o " users.", FALSE)
    /\ userListOutput' = innerHTML(<<"<p>", "No users found or list is empty.", "</p>">>)
    /\ UNCHANGED <<recipientPks, fetchedPks>>

\* mutant of GetListWarning: a warning empties the recipient field
GetListWarningClearsField(result) ==
    /\ statusMessage' = updateStatus(Str(result.message), TRUE)
    /\ userListOutput' =
         innerHTML(<<"<p class=\"text-orange-600\">">> \o result.message \o <<"</p>">>)
    /\ recipientPks' = ""
    /\ UNCHANGED fetchedPks

GetListWarning(result) ==
    /\ statusMessage' = updateStatus(Str(result.message), TRUE)
    /\ userListOutput' =
         innerHTML(<<"<p class=\"text-orange-600\">">> \o result.message \o <<"</p>">>)
    /\ UNCHANGED <<recipientPks, fetchedPks>>

GetListError(result) ==
    /\ statusMessage' =
         updateStatus("Failed to fetch list: " \o Str(ErrorDetail(result)), TRUE)
    /\ userListOutput' =
         innerHTML(<<"<p class=\"text-red-600\">", "Error: ">>
                     \o ErrorDetail(result) \o <<"</p>">>)
    /\ UNCHANGED <<recipientPks, fetchedPks>>

\* result.status, undefined when the body has none
StatusOf(result) == IF "status" \in DOMAIN result THEN result.status ELSE "undefined"

(***************************************************************************)
(* getListForm submit handler, from the await of fetch('/get-list') on     *)
(***************************************************************************)
GetListResponse(resp) ==
    /\ inflight["/get-list"] > 0
    /\ inflight' = Answered("/get-list")
    /\ IF resp.kind # "json"
       THEN /\ lastEvent' = Handled("getListResponse", resp, "unhandled rejection")
            /\ UNCHANGED <<statusMessage, actionVars>>
       ELSE LET result == resp.body IN
            IF resp.ok /\ StatusOf(result) = "success"
            THEN IF "users" \notin DOMAIN result
                 THEN \* result.users.length throws, after the list was cleared
                      /\ lastEvent' = Handled("getListResponse", resp, "unhandled rejection")
                      /\ userListOutput' = innerHTML(<<>>)
                      /\ UNCHANGED <<statusMessage, recipientPks, fetchedPks>>
                 ELSE /\ lastEvent' = Handled("getListResponse", resp, "returned")
                      /\ IF Len(result.users) > 0
                         THEN GetListPopulated(result)
                         ELSE GetListEmpty(result)
            ELSE /\ lastEvent' = Handled("getListResponse", resp, "returned")
                 /\ IF resp.ok /\ StatusOf(result) = "warning"
                    THEN GetListWarning(result)
                    ELSE GetListError(result)
    /\ UNCHANGED <<authVars, logVars, statusProbe>>

(***************************************************************************)
(* The operator edits the #recipient-pks textarea.                         *)
(***************************************************************************)
EditRecipient(v) ==
    /\ ~botActionsHidden
    /\ v # recipientPks
    /\ recipientPks' = v
    /\ lastEvent' = [op |-> "editRecipient"]
    /\ UNCHANGED <<authVars, logVars, statusMessage, userListOutput, fetchedPks,
                   statusProbe, inflight>>

\* new FormData(sendDmForm), then formData.set('recipient_pks', <textarea>.value)
\* mutant of SendDmFormData: the pks of the last fetch are sent, not the field
SendDmFormDataFetched == [recipient_pks |-> fetchedPks]

SendDmFormData == [recipient_pks |-> recipientPks]

(***************************************************************************)
(* sendDmForm submit handler, up to the await of fetch('/send-dm')         *)
(***************************************************************************)
SendDmSubmit ==
    /\ ~botActionsHidden
    /\ CanSend
    /\ statusMessage' = updateStatus("Starting mass DM process...", FALSE)
    /\ inflight' = Send("/send-dm")
    /\ lastEvent' =
         [op |-> "sendDmSubmit", defaultPrevented |-> TRUE, request |-> SendDmFormData]
    /\ UNCHANGED <<authVars, logVars, actionVars, statusProbe>>

(***************************************************************************)
(* sendDmForm submit handler, from the await of fetch('/send-dm') on       *)
(***************************************************************************)
SendDmResponse(resp) ==
    /\ inflight["/send-dm"] > 0
    /\ inflight' = Answered("/send-dm")
    /\ IF resp.kind # "json"
       THEN /\ lastEvent' = Handled("sendDmResponse", resp, "unhandled rejection")
            /\ UNCHANGED statusMessage
       ELSE LET result == resp.body IN
            /\ lastEvent' = Handled("sendDmResponse", resp, "returned")
            /\ IF resp.ok /\ StatusOf(result) = "processing"
               THEN statusMessage' = updateStatus(Str(result.message), FALSE)
               ELSE statusMessage' =
                      updateStatus("Failed to start DM process: "
                                     \o Str(ErrorDetail(result)), TRUE)
    /\ UNCHANGED <<authVars, logVars, actionVars, statusProbe>>

(***************************************************************************)
(* Specifications.  Next is every handler of the page, and Spec their      *)
(* composition; its state space is the product of the three components.    *)
(* Each component is specified on its own, with the status probe that      *)
(* seeds it: SpecLog is the log channel, SpecAuth the two authentication   *)
(* forms, SpecActions the two action forms with the recipient field.       *)
(***************************************************************************)
Next ==
    \/ \E data \in Payloads : OnMessage(data)
    \/ OnError
    \/ \E resp \in ProbeResponses : StatusResponse(resp)
    \/ LoginSubmit
    \/ \E resp \in LoginResponses : LoginResponse(resp)
    \/ TwoFaSubmit
    \/ \E resp \in TwoFaResponses : TwoFaResponse(resp)
    \/ GetListSubmit
    \/ \E resp \in GetListResponses : GetListResponse(resp)
    \/ \E v \in EditValues : EditRecipient(v)
    \/ SendDmSubmit
    \/ \E resp \in SendDmResponses : SendDmResponse(resp)

Spec == Init /\ [][Next]_vars

NextLog ==
    \/ \E data \in Payloads : OnMessage(data)
    \/ OnError
    \/ \E resp \in ProbeResponses : StatusResponse(resp)

SpecLog == Init /\ [][NextLog]_vars

NextAuth ==
    \/ \E resp \in ProbeResponses : StatusResponse(resp)
    \/ LoginSubmit
    \/ \E resp \in LoginResponses : LoginResponse(resp)
    \/ TwoFaSubmit
    \/ \E resp \in TwoFaResponses : TwoFaResponse(resp)

SpecAuth == Init /\ [][NextAuth]_vars

NextActions ==
    \/ \E resp \in ProbeResponses : StatusResponse(resp)
    \/ GetListSubmit
    \/ \E resp \in GetListResponses : GetListResponse(resp)
    \/ \E v \in EditValues : EditRecipient(v)
    \/ SendDmSubmit
    \/ \E resp \in SendDmResponses : SendDmResponse(resp)

SpecActions == Init /\ [][NextActions]_vars

(***************************************************************************)
(* The whole page, every handler together, with one input of each kind:    *)
(* one log payload, one backend message, one contact, one detail, and an  *)
(* unparseable body for the status probe and the login only.               *)
(***************************************************************************)
PagePayloads == { [log |-> <<"plain">>] }

PageProbeResponses == { r \in ProbeResponses : r.kind # "reject" }

PageLoginResponses ==
    { r \in LoginResponses : r.kind # "reject" /\ (r.kind = "json" => r.body.message = <<"Done.">>) }

PageTwoFaResponses ==
    { r \in TwoFaResponses : r.kind = "json" /\ r.body.message = <<"Done.">> }

PageGetListResponses ==
    { Json(TRUE, [status |-> "success", users |-> <<User(1)>>]),
      Json(TRUE, [status |-> "warning", message |-> <<"Done.">>]),
      Json(FALSE, [detail |-> <<"Not logged in">>]) }

PageSendDmResponses ==
    { Json(TRUE, [status |-> "processing", message |-> <<"Done.">>]),
      Json(FALSE, [detail |-> <<"Not logged in">>]) }

NextPage ==
    \/ \E data \in PagePayloads : OnMessage(data)
    \/ OnError
    \/ \E resp \in PageProbeResponses : StatusResponse(resp)
    \/ LoginSubmit
    \/ \E resp \in PageLoginResponses : LoginResponse(resp)
    \/ TwoFaSubmit
    \/ \E resp \in PageTwoFaResponses : TwoFaResponse(resp)
    \/ GetListSubmit
    \/ \E resp \in PageGetListResponses : GetListResponse(resp)
    \/ \E v \in EditValues : EditRecipient(v)
    \/ SendDmSubmit
    \/ \E resp \in PageSendDmResponses : SendDmResponse(resp)

SpecPage == Init /\ [][NextPage]_vars

(***************************************************************************)
(* Helpers of the claims.                                                  *)
(***************************************************************************)
\* the step taken last handled a parsed response of kind op
HandledJson(op) ==
    /\ lastEvent.op = op
    /\ lastEvent.resp.kind = "json"

\* the same of the step being taken
HandlingJson(op) ==
    /\ lastEvent'.op = op
    /\ lastEvent'.resp.kind = "json"

\* the text of every rendered log line, in order
RenderedLog == [i \in 1..Len(logOutput) |-> logOutput[i].textContent]

\* the log text of every delivered message that carries one, in arrival order
RECURSIVE ArrivedTexts(_)
ArrivedTexts(payloads) ==
    IF payloads = <<>> THEN <<>>
    ELSE IF HasLog(Head(payloads))
    THEN <<Str(Head(payloads).log)>> \o ArrivedTexts(Tail(payloads))
    ELSE ArrivedTexts(Tail(payloads))

(***************************************************************************)
(* C1: while the log channel is open, the rendered log is exactly the log  *)
(* texts of the messages delivered so far, in arrival order: none dropped, *)
(* duplicated or reordered.                                                *)
(***************************************************************************)
C1_RenderedIsArrived ==
    eventSource = "open" => RenderedLog = ArrivedTexts(received)

(***************************************************************************)
(* C2: every request failure (transport failure, unparsable body) is       *)
(* caught by the handler that issued the request and reported as an error  *)
(* status; no handler ends in an unhandled rejection.                      *)
(***************************************************************************)
C2_FailuresCaught ==
    ("resp" \in DOMAIN lastEvent /\ lastEvent.resp.kind # "json")
        => /\ lastEvent.ended = "caught"
           /\ statusMessage.isError

(***************************************************************************)
(* C3: after a login response with status "success" is handled, the login  *)
(* form and the 2FA section are hidden and the action surface is shown.    *)
(***************************************************************************)
C3_LoginSuccessAuthenticated ==
    (HandledJson("loginResponse") /\ lastEvent.resp.body.status = "success")
        => /\ loginFormHidden
           /\ twoFaSectionHidden
           /\ ~botActionsHidden

\* a login success was handled while another login request is still unanswered
C3_Witness ==
    /\ HandledJson("loginResponse")
    /\ lastEvent.resp.body.status = "success"
    /\ inflight["/login"] > 0

(***************************************************************************)
(* C4: a step handling a login response with status "2fa_required" ends    *)
(* with the login form hidden and the 2FA section shown, and leaves the    *)
(* visibility of the action surface as it was.                             *)
(***************************************************************************)
C4_TwoFaRequiredChallengePending ==
    [][ (HandlingJson("loginResponse") /\ lastEvent'.resp.body.status = "2fa_required")
          => /\ loginFormHidden'
             /\ ~twoFaSectionHidden'
             /\ botActionsHidden' = botActionsHidden ]_vars

C4_Witness ==
    /\ HandledJson("loginResponse")
    /\ lastEvent.resp.body.status = "2fa_required"
    /\ loginFormHidden /\ ~twoFaSectionHidden /\ botActionsHidden

(***************************************************************************)
(* C5: a step handling a 2FA response whose status is not "success" keeps  *)
(* the 2FA section shown, leaves the login form and the action surface as  *)
(* they were and reports an error; after it the 2FA form can be submitted  *)
(* again; a step handling a "success" 2FA response hides the 2FA section   *)
(* and shows the action surface.                                           *)
(***************************************************************************)
C5_TwoFaRetry ==
    /\ [][ (HandlingJson("twoFaResponse") /\ lastEvent'.resp.body.status # "success")
             => /\ ~twoFaSectionHidden'
                /\ loginFormHidden' = loginFormHidden
                /\ botActionsHidden' = botActionsHidden
                /\ statusMessage'.isError ]_vars
    /\ []( (HandledJson("twoFaResponse") /\ lastEvent.resp.body.status # "success")
             => ENABLED TwoFaSubmit )
    /\ [][ (HandlingJson("twoFaResponse") /\ lastEvent'.resp.body.status = "success")
             => /\ twoFaSectionHidden'
                /\ ~botActionsHidden' ]_vars

\* a failed code was handled in CHALLENGE_PENDING, which is where it left the page
C5_Witness ==
    /\ HandledJson("twoFaResponse")
    /\ lastEvent.resp.body.status # "success"
    /\ loginFormHidden /\ ~twoFaSectionHidden /\ botActionsHidden

(***************************************************************************)
(* C6: the log channel is opened once, at load; the first channel error    *)
(* appends exactly one line, the error line, and closes the channel; from  *)
(* then on the channel stays closed and the rendered log never changes.    *)
(***************************************************************************)
C6_ChannelFailsOnce ==
    /\ [](esOpened = 1)
    /\ [][ (esErrors = 0 /\ esErrors' > 0)
             => /\ logOutput' = Append(logOutput, logOutput'[Len(logOutput')])
                /\ logOutput'[Len(logOutput')].textContent = Str(StreamFailedLine)
                /\ eventSource' = "closed" ]_vars
    /\ [][ esErrors > 0
             => /\ logOutput' = logOutput
                /\ eventSource' = "closed"
                /\ esErrors' = esErrors ]_vars

\* the channel failed after a message was rendered, and the page went on
C6_Witness ==
    /\ esErrors = 1
    /\ eventSource = "closed"
    /\ Len(logOutput) = 2
    /\ lastEvent.op = "statusResponse"

\* the session state the visibility reflects
SessionRank ==
    IF ~botActionsHidden THEN 2          \* AUTHENTICATED
    ELSE IF ~twoFaSectionHidden THEN 1   \* CHALLENGE_PENDING
    ELSE 0                               \* UNAUTHENTICATED

(***************************************************************************)
(* C7: the session state moves backward only in a step that handles an     *)
(* explicit authentication failure (a login or 2FA response that is        *)
(* neither "success" nor "2fa_required"); a status-probe response never    *)
(* moves it backward.                                                      *)
(***************************************************************************)
C7_ForwardOnly ==
    [][ SessionRank' < SessionRank
          => /\ lastEvent'.op \in {"loginResponse", "twoFaResponse"}
             /\ lastEvent'.resp.kind = "json"
             /\ lastEvent'.resp.body.status \notin {"success", "2fa_required"} ]_vars

\* the step taken last handled a contact-fetch response that is ok with status
\* "success" and carries users
HandledFetchSuccess ==
    /\ HandledJson("getListResponse")
    /\ lastEvent.resp.ok
    /\ "status" \in DOMAIN lastEvent.resp.body
    /\ lastEvent.resp.body.status = "success"
    /\ "users" \in DOMAIN lastEvent.resp.body

\* the step taken last handled a contact-fetch response that is an error: parsed,
\* and not ok or with a status that is neither "success" nor "warning"
HandledFetchError ==
    /\ HandledJson("getListResponse")
    /\ \/ ~lastEvent.resp.ok
       \/ "status" \notin DOMAIN lastEvent.resp.body
       \/ lastEvent.resp.body.status \notin {"success", "warning"}

\* the first n pks of users, in order, joined by ", "
RECURSIVE PksJoined(_, _)
PksJoined(users, n) ==
    IF n = 0 THEN ""
    ELSE IF n = 1 THEN ToString(users[1].pk)
    ELSE PksJoined(users, n - 1) \o ", " \o ToString(users[n].pk)

\* the list entry of one user: a plain paragraph showing its three fields
EntryOf(user) ==
    [tag |-> "p", className |-> "",
     textContent |-> "PK: " \o ToString(user.pk) \o ", Username: " \o Str(user.username)
                       \o ", Full Name: " \o Str(user.full_name)]

(***************************************************************************)
(* C8: after a contact-fetch response that is ok with status "success" and *)
(* a nonempty users sequence is handled, the recipient field is the users' *)
(* pks in response order joined by ", ", the list output holds one entry   *)
(* per user in the same order, and the status reports the number of users. *)
(***************************************************************************)
C8_PopulatedFetch ==
    (HandledFetchSuccess /\ Len(lastEvent.resp.body.users) > 0)
        => LET users == lastEvent.resp.body.users IN
           /\ recipientPks = PksJoined(users, Len(users))
           /\ userListOutput = [i \in 1..Len(users) |-> EntryOf(users[i])]
           /\ statusMessage =
                [textContent |-> "Successfully fetched " \o ToString(Len(users)) \o " users.",
                 isError |-> FALSE]

(***************************************************************************)
(* C9: the recipient_pks of the request a bulk-message submit sends is the *)
(* content of the recipient field at that submit.                          *)
(***************************************************************************)
C9_SendsFieldContent ==
    [][ lastEvent'.op = "sendDmSubmit"
          => lastEvent'.request.recipient_pks = recipientPks ]_vars

\* a submit after a fetch populated the field and the operator edited it
C9_Witness ==
    /\ lastEvent.op = "sendDmSubmit"
    /\ fetchedPks # ""
    /\ lastEvent.request.recipient_pks # fetchedPks
    /\ lastEvent.request.recipient_pks = "7, 8"

\* the presentation of the empty result: the notice, and a non-error status
EmptyNotice ==
    <<[tag |-> "p", className |-> "", textContent |-> "No users found or list is empty."]>>

(***************************************************************************)
(* C10: after an ok "success" contact-fetch response with an empty users   *)
(* sequence is handled, the list output is the empty-state notice and the  *)
(* status is not an error; after an error response is handled, the list    *)
(* output is not that notice and the status is an error.                   *)
(***************************************************************************)
C10_EmptyIsNotError ==
    /\ (HandledFetchSuccess /\ lastEvent.resp.body.users = <<>>)
         => /\ userListOutput = EmptyNotice
            /\ ~statusMessage.isError
    /\ HandledFetchError
         => /\ userListOutput # EmptyNotice
            /\ statusMessage.isError

C10_Witness ==
    /\ HandledFetchSuccess
    /\ lastEvent.resp.body.users = <<>>
    /\ userListOutput = EmptyNotice

\* the step taken last handled a contact-fetch response that is ok with status
\* "warning"
HandledFetchWarning ==
    /\ HandledJson("getListResponse")
    /\ lastEvent.resp.ok
    /\ "status" \in DOMAIN lastEvent.resp.body
    /\ lastEvent.resp.body.status = "warning"

(***************************************************************************)
(* C11: after a contact-fetch response that is ok with status "warning" is *)
(* handled, the list output is the backend message in the warning style,   *)
(* the status line shows that message, and neither is an error: the list   *)
(* entry is not in the error style and the status is not flagged an error. *)
(***************************************************************************)
C11_WarningIsNotError ==
    HandledFetchWarning
        => /\ userListOutput =
                <<[tag |-> "p", className |-> "text-orange-600",
                   textContent |-> Str(lastEvent.resp.body.message)]>>
           /\ statusMessage.textContent = Str(lastEvent.resp.body.message)
           /\ ~statusMessage.isError

(***************************************************************************)
(* C12: a step that handles a login response with status "2fa_required"    *)
(* writes the backend message to the status line, not flagged as an error. *)
(***************************************************************************)
C12_TwoFaNoticeNotError ==
    [][ (HandlingJson("loginResponse") /\ lastEvent'.resp.body.status = "2fa_required")
          => statusMessage' =
               [textContent |-> Str(lastEvent'.resp.body.message), isError |-> FALSE] ]_vars

\* which of the login form, the 2FA section and the action surface are hidden
visibility == <<loginFormHidden, twoFaSectionHidden, botActionsHidden>>

(***************************************************************************)
(* C13: the status probe is pending at load and is answered at most once:  *)
(* once it is no longer pending it never is again (no second probe, no     *)
(* retry).  The step handling its answer hides the login form and shows    *)
(* the action surface when logged_in is true, shows the login form and     *)
(* hides the action surface when it is false, and when the probe failed    *)
(* (rejected, or a body that does not parse) writes an error status and    *)
(* changes no visibility.                                                  *)
(***************************************************************************)
C13_ProbeOnce ==
    /\ statusProbe = "pending"
    /\ [][ /\ statusProbe # "pending" => statusProbe' = statusProbe
           /\ lastEvent'.op = "statusResponse"
                => /\ statusProbe = "pending"
                   /\ statusProbe' # "pending"
                   /\ IF lastEvent'.resp.kind = "json"
                      THEN IF lastEvent'.resp.body.logged_in
                           THEN loginFormHidden' /\ ~botActionsHidden'
                           ELSE ~loginFormHidden' /\ botActionsHidden'
                      ELSE /\ statusMessage'.isError
                           /\ visibility' = visibility ]_vars

\* the probe failed and a login was submitted afterwards: the probe stays failed
C13_Witness ==
    /\ statusProbe = "failed"
    /\ statusMessage.textContent = "Logging in..."
    /\ lastEvent.op = "loginSubmit"

\* the detail a response carries, or the generic fallback when it carries none
\* (no parsed body, no detail in it, or an empty one)
DetailOrFallback(resp) ==
    IF /\ resp.kind = "json"
       /\ "detail" \in DOMAIN resp.body
       /\ resp.body.detail # <<>>
    THEN Str(resp.body.detail)
    ELSE "Unknown error"

\* resp is ok with body status "processing"
IsProcessing(resp) ==
    /\ resp.kind = "json"
    /\ resp.ok
    /\ "status" \in DOMAIN resp.body
    /\ resp.body.status = "processing"

(***************************************************************************)
(* C14: a step that handles a bulk-message response (any response the      *)
(* backend returned, parseable or not) writes the status line: the backend *)
(* message, not an error, exactly when the response is ok with status      *)
(* "processing"; for every other response the start failure with the       *)
(* backend detail or the generic fallback, flagged as an error.  Nothing   *)
(* else (completion, per-recipient outcome) is ever reported by the step.  *)
(***************************************************************************)
C14_StartedOrStartFailure ==
    [][ (lastEvent'.op = "sendDmResponse" /\ lastEvent'.resp.kind \in {"json", "nonjson"})
          => IF IsProcessing(lastEvent'.resp)
             THEN statusMessage' =
                    [textContent |-> Str(lastEvent'.resp.body.message), isError |-> FALSE]
             ELSE statusMessage' =
                    [textContent |-> "Failed to start DM process: "
                                       \o DetailOrFallback(lastEvent'.resp),
                     isError |-> TRUE] ]_vars

\* the forms: the endpoint each submits to, and the events of its handler
Forms ==
    { [url |-> "/login", submit |-> "loginSubmit", response |-> "loginResponse"],
      [url |-> "/complete-2fa", submit |-> "twoFaSubmit", response |-> "twoFaResponse"],
      [url |-> "/get-list", submit |-> "getListSubmit", response |-> "getListResponse"],
      [url |-> "/send-dm", submit |-> "sendDmSubmit", response |-> "sendDmResponse"] }

\* the step taken last handled a failure response of kind op: a body that does
\* not parse, a response that is not ok, or a status that is not one of goodStatus
HandledFailure(op, goodStatus) ==
    /\ lastEvent.op = op
    /\ lastEvent.resp.kind # "reject"
    /\ \/ lastEvent.resp.kind = "nonjson"
       \/ ~lastEvent.resp.ok
       \/ "status" \notin DOMAIN lastEvent.resp.body
       \/ lastEvent.resp.body.status \notin goodStatus

(***************************************************************************)
(* C15: for each of the four forms, a step sends a request to the form's   *)
(* endpoint exactly when it is a submit event of that form, and then sends *)
(* exactly one; every submit event has its default action prevented; no    *)
(* other step (a response, a failure, a log event) sends anything; and in  *)
(* every state reached by handling a failure response of a form, that form *)
(* can be submitted again.                                                 *)
(***************************************************************************)
C15_OneRequestPerSubmit ==
    /\ [][ \A f \in Forms :
             /\ lastEvent'.op = f.submit
                  => /\ inflight'[f.url] = inflight[f.url] + 1
                     /\ lastEvent'.defaultPrevented
             /\ lastEvent'.op = f.response => inflight'[f.url] = inflight[f.url] - 1
             /\ lastEvent'.op \notin {f.submit, f.response}
                  => inflight'[f.url] = inflight[f.url] ]_vars
    /\ []( /\ HandledFailure("loginResponse", {"success", "2fa_required"})
                => ENABLED LoginSubmit
           /\ HandledFailure("twoFaResponse", {"success"}) => ENABLED TwoFaSubmit
           /\ HandledFailure("getListResponse", {"success", "warning"})
                => ENABLED GetListSubmit
           /\ HandledFailure("sendDmResponse", {"processing"}) => ENABLED SendDmSubmit )

(***************************************************************************)
(* C16: with the action surface hidden at load and the two action forms    *)
(* submitted only while it is shown, whenever the action surface is shown  *)
(* a backend response has attested an authenticated session before (the    *)
(* status probe with logged_in true, a login "success" or a 2FA            *)
(* "success"); and whenever a contact-fetch or bulk-message request has    *)
(* been sent (the submit just happened, or the request awaits its answer)  *)
(* such a response came before it.                                         *)
(***************************************************************************)
C16_ActionsOnlyAfterAttested ==
    /\ ~botActionsHidden => attested
    /\ lastEvent.op \in {"getListSubmit", "sendDmSubmit"} => attested
    /\ (inflight["/get-list"] > 0 \/ inflight["/send-dm"] > 0) => attested

\* a contact fetch submitted on the surface a login or 2FA success revealed,
\* while the status probe is still unanswered
C16_Witness ==
    /\ lastEvent.op = "getListSubmit"
    /\ statusProbe = "pending"
    /\ ~botActionsHidden
    /\ inflight["/get-list"] = 1

\* the events of the page, by kind
SubmitOps == {"loginSubmit", "twoFaSubmit", "getListSubmit", "sendDmSubmit"}

ResponseOps == {"statusResponse", "loginResponse", "twoFaResponse",
                "getListResponse", "sendDmResponse"}

(***************************************************************************)
(* C17: a step changes which of the login form, the 2FA section and the    *)
(* action surface are shown only if it handles a response of the status    *)
(* probe, of a login or of a 2FA submit; submit events, log events,        *)
(* channel errors and edits of the recipient field leave visibility as it  *)
(* is.  The status line changes only in a step of a submit or of a         *)
(* response handler, so while a request stays unanswered its in-progress   *)
(* message stands until another such step writes it.  The rendered log     *)
(* changes only in a step of the log channel (a message or its error),     *)
(* never in a submit or a response step.                                   *)
(***************************************************************************)
C17_ResponseDrivenOnly ==
    [][ /\ visibility' # visibility
             => lastEvent'.op \in {"statusResponse", "loginResponse", "twoFaResponse"}
        /\ lastEvent'.op \in SubmitOps \cup {"onmessage", "onerror", "editRecipient"}
             => visibility' = visibility
        /\ statusMessage' # statusMessage => lastEvent'.op \in SubmitOps \cup ResponseOps
        /\ lastEvent'.op \in SubmitOps \cup ResponseOps => logOutput' = logOutput
        /\ logOutput' # logOutput => lastEvent'.op \in {"onmessage", "onerror"} ]_vars

\* a log line was rendered while a login awaits its response: the status line is
\* still the in-progress message
C17_Witness ==
    /\ lastEvent.op = "onmessage"
    /\ Len(logOutput) > 0
    /\ inflight["/login"] > 0
    /\ statusMessage = [textContent |-> "Logging in...", isError |-> FALSE]

\* the list outputs that hold only content derived from the contact-fetch response
\* resp: the rendering of its users, the empty notice, its warning or its error;
\* for a response that carries none of these (its body does not parse, or lacks
\* the users), an empty list, the generic error or the placeholder of the submit
DerivedFrom(resp) ==
    IF resp.kind = "json" /\ resp.ok /\ StatusOf(resp.body) = "success"
                          /\ "users" \in DOMAIN resp.body
    THEN IF resp.body.users = <<>>
         THEN { EmptyNotice }
         ELSE { innerHTML(ListHtml(resp.body.users)) }
    ELSE IF resp.kind = "json" /\ resp.ok /\ StatusOf(resp.body) = "warning"
    THEN { <<Paragraph("text-orange-600", Str(resp.body.message))>> }
    ELSE IF resp.kind = "json" /\ ~(resp.ok /\ StatusOf(resp.body) = "success")
    THEN { <<Paragraph("text-red-600", "Error: " \o DetailOrFallback(resp))>> }
    ELSE { <<>>,
           <<Paragraph("text-red-600", "Error: Unknown error")>>,
           <<Paragraph("", "Fetching list...")>> }

(***************************************************************************)
(* C18: in every state reached by handling a contact-fetch response, the   *)
(* list output holds only content derived from that response; whatever an  *)
(* earlier fetch rendered is gone, however many fetches were made and      *)
(* however each of them ended.                                             *)
(***************************************************************************)
C18_NoStaleList ==
    (lastEvent.op = "getListResponse" /\ lastEvent.resp.kind \in {"json", "nonjson"})
        => userListOutput \in DerivedFrom(lastEvent.resp)

\* how many of the login form, the 2FA section and the action surface are shown
Shown ==
    (IF loginFormHidden THEN 0 ELSE 1) + (IF twoFaSectionHidden THEN 0 ELSE 1)
      + (IF botActionsHidden THEN 0 ELSE 1)

(***************************************************************************)
(* C19: in every reachable state, whatever the order of submit events and  *)
(* responses, at most one of the login form, the 2FA section and the       *)
(* action surface is shown.                                                *)
(***************************************************************************)
C19_AtMostOneShown == Shown <= 1

\* the step being taken handles a contact-fetch response that is ok with status
\* "success" and a nonempty users sequence
HandlingPopulatedFetch ==
    /\ HandlingJson("getListResponse")
    /\ lastEvent'.resp.ok
    /\ StatusOf(lastEvent'.resp.body) = "success"
    /\ "users" \in DOMAIN lastEvent'.resp.body
    /\ lastEvent'.resp.body.users # <<>>

(***************************************************************************)
(* C20: the page writes the recipient field only in a step that handles a  *)
(* contact-fetch response that is ok, "success" and nonempty (any other    *)
(* change of the field is the operator typing into it).  A step handling   *)
(* any other contact-fetch response (empty success, warning, error, or one *)
(* that does not parse) leaves the field as it was, so the field still     *)
(* holds the pks of an earlier fetch or the operator's edit.               *)
(***************************************************************************)
C20_FieldWrittenByPopulatedFetchOnly ==
    [][ /\ recipientPks' # recipientPks
             => (lastEvent'.op = "editRecipient" \/ HandlingPopulatedFetch)
        /\ (lastEvent'.op = "getListResponse" /\ ~HandlingPopulatedFetch)
             => recipientPks' = recipientPks ]_vars

\* a warning was handled after an earlier fetch had filled the field: the field
\* still holds the pks of that fetch
C20_Witness ==
    /\ HandledFetchWarning
    /\ fetchedPks # ""
    /\ recipientPks = fetchedPks

====
